---- MODULE Spec2Model ----
(***************************************************************************)
(* Model of the RAG database tools of mallworth/calhacks:                  *)
(*   tools/build_rag_db.py      chunk_text, create_database,               *)
(*                              process_knowledge_base, test_search, main  *)
(*   tools/query_rag.py         search                                     *)
(*   tools/extract_and_chunk.py chunk_text                                 *)
(*                                                                         *)
(* SpecChunk applies the two chunkers to bounded inputs.  Spec is one run   *)
(* of the build script, SpecRebuild runs it again and again on the same    *)
(* database file, SpecQuery calls the query script while it runs.          *)
(***************************************************************************)
EXTENDS Integers, Sequences, FiniteSets, TLC

(* ---------------------------- bounds ----------------------------------- *)
MaxTextLen == 5      \* characters in an input text of the chunker
MaxSize    == 3      \* largest chunk size tried
MaxOverlap == 3      \* largest overlap tried (reaches overlap > size)
NumFiles   == 2      \* *.txt files in the knowledge base directory
MaxChunks  == 2      \* chunks a knowledge base file splits into
MaxRuns    == 2      \* runs of the build script on the same database path
MaxK       == 2      \* largest top_k the query script is called with
MaxVec     == 1      \* embedding component values are 0..MaxVec

(* ------------------------ program constants ---------------------------- *)
TestSearchK == 5     \* "AND k = 5" in test_search

VARIABLES
    \* chunker call (SpecChunk)
    text, size, overlap, chunk_pc, chunks,
    \* input of the build script: chunks per knowledge base file
    kb,
    \* database file (committed state)
    db_tables, committed_documents, committed_vec, committed_seq,
    \* connection of the build script (its view, with the open transaction)
    conn_open, documents, vec_documents, seq,
    \* main / process_knowledge_base
    run, main_pc, file_idx, file_pc, chunk_id, embedding, doc_id,
    total_chunks, test_idx, reported,
    \* output: error lines printed (run, file, failing statement, chunk), rows
    \* of the last query
    errors, results

chunk_vars == <<text, size, overlap, chunk_pc, chunks>>
db_vars    == <<db_tables, committed_documents, committed_vec, committed_seq>>
conn_vars  == <<conn_open, documents, vec_documents, seq>>
proc_vars  == <<file_idx, file_pc, chunk_id, embedding, doc_id, total_chunks>>
main_vars  == <<run, main_pc, test_idx, reported>>
build_vars == <<kb, db_vars, conn_vars, proc_vars, main_vars, errors, results>>
vars       == <<chunk_vars, build_vars>>

Min(a, b) == IF a < b THEN a ELSE b
Max(a, b) == IF a > b THEN a ELSE b

(***************************************************************************)
(* Strings are sequences of one-character strings.                         *)
(***************************************************************************)
Chars      == {"a", "b", " "}
Whitespace == {" "}

RECURSIVE split_from(_, _, _)
split_from(s, cur, acc) ==
    IF s = <<>>
    THEN IF cur = <<>> THEN acc ELSE Append(acc, cur)
    ELSE IF Head(s) \in Whitespace
         THEN split_from(Tail(s), <<>>, IF cur = <<>> THEN acc ELSE Append(acc, cur))
         ELSE split_from(Tail(s), Append(cur, Head(s)), acc)

\* str.split(): the maximal runs of non-whitespace characters
split(s) == split_from(s, <<>>, <<>>)

RECURSIVE join(_, _)
\* sep.join(ws)
join(sep, ws) ==
    IF ws = <<>> THEN <<>>
    ELSE IF Len(ws) = 1 THEN ws[1]
    ELSE ws[1] \o sep \o join(sep, Tail(ws))

RECURSIVE lstrip(_)
lstrip(s) == IF s # <<>> /\ Head(s) \in Whitespace THEN lstrip(Tail(s)) ELSE s

RECURSIVE rstrip(_)
rstrip(s) ==
    IF s # <<>> /\ s[Len(s)] \in Whitespace THEN rstrip(SubSeq(s, 1, Len(s) - 1)) ELSE s

\* str.strip()
strip(s) == rstrip(lstrip(s))

\* ws[i:j] for 0 <= i
slice(ws, i, j) == SubSeq(ws, i + 1, Min(j, Len(ws)))

\* len(range(start, stop, step)) for step # 0
range_len(start, stop, step) ==
    IF step > 0
    THEN Max(0, (stop - start + step - 1) \div step)
    ELSE Max(0, (start - stop + (-step) - 1) \div (-step))

\* list(range(start, stop, step)) for step # 0; range() raises ValueError on step = 0
range(start, stop, step) ==
    [n \in 1..range_len(start, stop, step) |-> start + (n - 1) * step]

window_short(words, i, sz) == join(<<" ">>, slice(words, i, i + sz - 1))

\* " ".join(words[i:i+size])
window(words, i, sz) == join(<<" ">>, slice(words, i, i + sz))

RECURSIVE chunk_loop(_, _, _, _)
\* build_rag_db.py: the for loop with the "if chunk.strip()" filter
chunk_loop(words, idxs, sz, acc) ==
    IF idxs = <<>> THEN acc
    ELSE LET chunk == window(words, Head(idxs), sz)
         IN  chunk_loop(words, Tail(idxs), sz,
                        IF strip(chunk) # <<>> THEN Append(acc, chunk) ELSE acc)

step_one(sz, ov) == 1

\* size - overlap, the third argument of range()
step_of(sz, ov) == sz - ov

\* build_rag_db.py chunk_text: [status, chunks]
chunk_text(t, sz, ov) ==
    LET words == split(t)
    IN  IF step_of(sz, ov) = 0
        THEN [status |-> "ValueError", chunks |-> <<>>]
        ELSE [status |-> "returned",
              chunks |-> chunk_loop(words, range(0, Len(words), step_of(sz, ov)), sz, <<>>)]

\* extract_and_chunk.py chunk_text: the same loop without the filter
chunk_text_extract(t, sz, ov) ==
    LET words == split(t)
    IN  IF step_of(sz, ov) = 0
        THEN [status |-> "ValueError", chunks |-> <<>>]
        ELSE [status |-> "returned",
              chunks |-> [n \in 1..range_len(0, Len(words), step_of(sz, ov)) |->
                            window(words, range(0, Len(words), step_of(sz, ov))[n], sz)]]

(***************************************************************************)
(* Embedding provider and the vec0 table.  A vector has one component, a   *)
(* text is <<"chunk", file, chunk_id>> or <<"query", n>>; the provider is  *)
(* a deterministic function of the text.                                   *)
(***************************************************************************)
Files == 1..NumFiles

\* embed_text: text -> vector
embed_text(t) ==
    IF t[1] = "chunk" THEN <<(t[2] + t[3]) % (MaxVec + 1)>>
                      ELSE <<t[2] % (MaxVec + 1)>>

\* vector.astype(np.float32).tobytes(): four little-endian bytes per component
serialize_f32(v) ==
    [n \in 1..(4 * Len(v)) |->
        LET x == v[((n - 1) \div 4) + 1]
            b == (n - 1) % 4
        IN  IF b = 0 THEN x % 256 ELSE IF b = 1 THEN (x \div 256) % 256 ELSE 0]

\* vec0 reading a FLOAT[] blob back
vec0_decode(blob) ==
    [n \in 1..(Len(blob) \div 4) |-> blob[4 * n - 3] + 256 * blob[4 * n - 2]]

Abs(x) == IF x < 0 THEN -x ELSE x

\* the distance column of vec0 (Euclidean, one component)
vec0_distance(qblob, blob) == Abs(vec0_decode(qblob)[1] - vec0_decode(blob)[1])

\* r comes before o in "ORDER BY distance" (ties in rowid order)
nearer(r, o) ==
    r.distance < o.distance
        \/ (r.distance = o.distance /\ r.document_id <= o.document_id)

RECURSIVE order_by_distance(_)
order_by_distance(rows) ==
    IF rows = {} THEN <<>>
    ELSE LET m == CHOOSE r \in rows : \A o \in rows : nearer(r, o)
         IN  <<m>> \o order_by_distance(rows \ {m})

\* every row of vec_documents with its distance to the query vector
with_distance(vecs, qblob) ==
    {[document_id |-> v.document_id,
      distance    |-> vec0_distance(qblob, v.embedding)] : v \in vecs}

knn_one_more(vecs, qblob, k) ==
    slice(order_by_distance(with_distance(vecs, qblob)), 0, k + 1)

\* "WHERE embedding MATCH ? AND k = ?": the k nearest rows of vec_documents
knn(vecs, qblob, k) == slice(order_by_distance(with_distance(vecs, qblob)), 0, k)

\* the SELECT of search and test_search:
\* vec_documents v JOIN documents d ON v.document_id = d.id ... ORDER BY distance
select_knn(docs, vecs, qblob, k) ==
    LET hit(v)  == \E d \in docs : d.id = v.document_id
        joined  == SelectSeq(knn(vecs, qblob, k), hit)
        doc(v)  == CHOOSE d \in docs : d.id = v.document_id
    IN  [n \in 1..Len(joined) |->
            [source   |-> doc(joined[n]).source,
             chunk_id |-> doc(joined[n]).chunk_id,
             text     |-> doc(joined[n]).text,
             distance |-> joined[n].distance]]

\* the three queries main passes to test_search
TestQueries == <<0, 1, 2>>

NoResults == [status |-> "none", rows |-> <<>>, query |-> 0, top_k |-> 0]

(***************************************************************************)
(* Initial states.                                                         *)
(***************************************************************************)
ChunkIdle ==
    /\ text = <<>> /\ size = 1 /\ overlap = 0
    /\ chunk_pc = "idle" /\ chunks = <<>>

BuildFresh ==
    /\ db_tables = FALSE
    /\ committed_documents = {} /\ committed_vec = {} /\ committed_seq = 0
    /\ conn_open = FALSE
    /\ documents = {} /\ vec_documents = {} /\ seq = 0
    /\ run = 1
    /\ file_idx = 0 /\ file_pc = "none" /\ chunk_id = 0
    /\ embedding = <<>> /\ doc_id = 0 /\ total_chunks = 0
    /\ test_idx = 0 /\ reported = -1
    /\ errors = {} /\ results = NoResults

\* the build script is started on a knowledge base directory, no database yet
Init ==
    /\ ChunkIdle
    /\ BuildFresh
    /\ kb \in [Files -> 0..MaxChunks]
    /\ main_pc = "create_database"

Texts == UNION {[1..n -> Chars] : n \in 0..MaxTextLen}

\* a chunker is about to be called on some text with some size and overlap
ChunkInit ==
    /\ text \in Texts
    /\ size \in 1..MaxSize
    /\ overlap \in 0..MaxOverlap
    /\ chunk_pc = "call" /\ chunks = <<>>
    /\ BuildFresh
    /\ kb = [f \in Files |-> 0]
    /\ main_pc = "idle"

(***************************************************************************)
(* Chunker calls.                                                          *)
(***************************************************************************)
CallChunkText ==
    /\ chunk_pc = "call"
    /\ LET r == chunk_text(text, size, overlap)
       IN  /\ chunk_pc' = (IF r.status = "returned" THEN "returned" ELSE "error")
           /\ chunks' = r.chunks
    /\ UNCHANGED <<text, size, overlap, build_vars>>

CallChunkTextExtract ==
    /\ chunk_pc = "call"
    /\ LET r == chunk_text_extract(text, size, overlap)
       IN  /\ chunk_pc' = (IF r.status = "returned" THEN "returned_extract" ELSE "error_extract")
           /\ chunks' = r.chunks
    /\ UNCHANGED <<text, size, overlap, build_vars>>

ChunkNext == CallChunkText \/ CallChunkTextExtract

SpecChunk == ChunkInit /\ [][ChunkNext]_vars

(***************************************************************************)
(* build_rag_db.py                                                         *)
(***************************************************************************)
\* create_database: connect, load the extension, CREATE ... IF NOT EXISTS, commit
CreateDatabase ==
    /\ main_pc = "create_database"
    /\ conn_open' = TRUE
    /\ db_tables' = TRUE
    /\ documents' = committed_documents
    /\ vec_documents' = committed_vec
    /\ seq' = committed_seq
    /\ main_pc' = "process_knowledge_base"
    /\ UNCHANGED <<chunk_vars, kb, committed_documents, committed_vec, committed_seq,
                   proc_vars, run, test_idx, reported, errors, results>>

\* create_database: the extension is not found; conn.close() and raise
CreateDatabaseFail ==
    /\ main_pc = "create_database"
    /\ main_pc' = "aborted"
    /\ errors' = errors \cup {<<run, 0, main_pc, 0>>}
    /\ UNCHANGED <<chunk_vars, kb, db_vars, conn_vars, proc_vars, run, test_idx,
                   reported, results>>

loop_pc(i) == IF i <= NumFiles THEN "read" ELSE "return"

\* process_knowledge_base up to the for loop
ProcessStart ==
    /\ main_pc = "process_knowledge_base" /\ file_pc = "none"
    /\ total_chunks' = 0
    /\ file_idx' = 1
    /\ file_pc' = loop_pc(1)
    /\ UNCHANGED <<chunk_vars, kb, db_vars, conn_vars, chunk_id, embedding, doc_id,
                   main_vars, errors, results>>

\* txt_file.read_text, chunk_text(text, 500, 80), enumerate(chunks)
ReadAndChunk ==
    /\ main_pc = "process_knowledge_base" /\ file_pc = "read"
    /\ chunk_id' = 0
    /\ file_pc' = (IF kb[file_idx] > 0 THEN "embed" ELSE "commit")
    /\ UNCHANGED <<chunk_vars, kb, db_vars, conn_vars, file_idx, embedding, doc_id,
                   total_chunks, main_vars, errors, results>>

\* embedding = embed_text(chunk, session, tokenizer)
EmbedChunk ==
    /\ main_pc = "process_knowledge_base" /\ file_pc = "embed"
    /\ embedding' = embed_text(<<"chunk", file_idx, chunk_id>>)
    /\ file_pc' = "insert_doc"
    /\ UNCHANGED <<chunk_vars, kb, db_vars, conn_vars, file_idx, chunk_id, doc_id,
                   total_chunks, main_vars, errors, results>>

\* INSERT INTO documents ...; doc_id = cursor.lastrowid
InsertDocument ==
    /\ main_pc = "process_knowledge_base" /\ file_pc = "insert_doc"
    /\ documents' = documents \cup
           {[id |-> seq + 1, source |-> file_idx, chunk_id |-> chunk_id,
             text |-> <<"chunk", file_idx, chunk_id>>, created_at |-> run]}
    /\ seq' = seq + 1
    /\ doc_id' = seq + 1
    /\ file_pc' = "insert_vec"
    /\ UNCHANGED <<chunk_vars, kb, db_vars, conn_open, vec_documents, file_idx,
                   chunk_id, embedding, total_chunks, main_vars, errors, results>>

\* INSERT INTO vec_documents ...; total_chunks += 1; next chunk
InsertEmbedding ==
    /\ main_pc = "process_knowledge_base" /\ file_pc = "insert_vec"
    /\ vec_documents' = vec_documents \cup
           {[document_id |-> doc_id, embedding |-> serialize_f32(embedding)]}
    /\ total_chunks' = total_chunks + 1
    /\ IF chunk_id + 1 < kb[file_idx]
       THEN chunk_id' = chunk_id + 1 /\ file_pc' = "embed"
       ELSE chunk_id' = chunk_id /\ file_pc' = "commit"
    /\ UNCHANGED <<chunk_vars, kb, db_vars, conn_open, documents, seq, file_idx,
                   embedding, doc_id, main_vars, errors, results>>

commit_nothing(view, disk) == disk

\* what conn.commit() leaves in the database file
commit_rows(view, disk) == view

\* conn.commit() after each file; next file
CommitFile ==
    /\ main_pc = "process_knowledge_base" /\ file_pc = "commit"
    /\ committed_documents' = commit_rows(documents, committed_documents)
    /\ committed_vec' = commit_rows(vec_documents, committed_vec)
    /\ committed_seq' = commit_rows(seq, committed_seq)
    /\ file_idx' = file_idx + 1
    /\ file_pc' = loop_pc(file_idx + 1)
    /\ UNCHANGED <<chunk_vars, kb, db_tables, conn_vars, chunk_id, embedding, doc_id,
                   total_chunks, main_vars, errors, results>>

\* except Exception: print the error; continue (any statement of the try block raised)
FileError ==
    /\ main_pc = "process_knowledge_base"
    /\ file_pc \in {"read", "embed", "insert_doc", "insert_vec", "commit"}
    /\ errors' = errors \cup {<<run, file_idx, file_pc, chunk_id>>}
    /\ file_idx' = file_idx + 1
    /\ file_pc' = loop_pc(file_idx + 1)
    /\ UNCHANGED <<chunk_vars, kb, db_vars, conn_vars, chunk_id, embedding, doc_id,
                   total_chunks, main_vars, results>>

\* the for loop is exhausted: print the total, return to main
ProcessReturn ==
    /\ main_pc = "process_knowledge_base" /\ file_pc = "return"
    /\ main_pc' = "test_search"
    /\ test_idx' = 1
    /\ file_pc' = "none"
    /\ UNCHANGED <<chunk_vars, kb, db_vars, conn_vars, file_idx, chunk_id, embedding,
                   doc_id, total_chunks, run, reported, errors, results>>

\* test_search(conn, session, tokenizer, query): on the build's own connection
TestSearch ==
    /\ main_pc = "test_search"
    /\ results' = [status |-> "rows",
                   rows   |-> select_knn(documents, vec_documents,
                                  serialize_f32(embed_text(<<"query", TestQueries[test_idx]>>)),
                                  TestSearchK),
                   query  |-> TestQueries[test_idx],
                   top_k  |-> TestSearchK]
    /\ IF test_idx < Len(TestQueries)
       THEN test_idx' = test_idx + 1 /\ main_pc' = main_pc
       ELSE test_idx' = test_idx /\ main_pc' = "close"
    /\ UNCHANGED <<chunk_vars, kb, db_vars, conn_vars, proc_vars, run, reported, errors>>

\* test_search raises (embedding or query error): main ends, the connection is dropped
TestSearchFail ==
    /\ main_pc = "test_search"
    /\ main_pc' = "aborted"
    /\ errors' = errors \cup {<<run, 0, main_pc, 0>>}
    /\ conn_open' = FALSE
    /\ documents' = {} /\ vec_documents' = {} /\ seq' = 0
    /\ UNCHANGED <<chunk_vars, kb, db_vars, proc_vars, run, test_idx, reported, results>>

\* conn.close(): an open transaction is rolled back
Close ==
    /\ main_pc = "close"
    /\ conn_open' = FALSE
    /\ documents' = {} /\ vec_documents' = {} /\ seq' = 0
    /\ main_pc' = "report"
    /\ UNCHANGED <<chunk_vars, kb, db_vars, proc_vars, run, test_idx, reported, errors,
                   results>>

\* print(... conn.execute('SELECT COUNT(*) FROM documents') ...): a closed
\* connection raises sqlite3.ProgrammingError
Report ==
    /\ main_pc = "report"
    /\ IF conn_open
       THEN reported' = Cardinality(documents) /\ main_pc' = "done"
       ELSE reported' = reported /\ main_pc' = "crashed"
    /\ UNCHANGED <<chunk_vars, kb, db_vars, conn_vars, proc_vars, run, test_idx, errors,
                   results>>

\* the script is started again on the same paths
Rerun ==
    /\ main_pc \in {"done", "crashed", "aborted"}
    /\ run < MaxRuns
    /\ run' = run + 1
    /\ main_pc' = "create_database"
    /\ file_idx' = 0 /\ file_pc' = "none" /\ chunk_id' = 0
    /\ embedding' = <<>> /\ doc_id' = 0 /\ total_chunks' = 0
    /\ test_idx' = 0 /\ reported' = -1
    /\ UNCHANGED <<chunk_vars, kb, db_vars, conn_vars, errors, results>>

(***************************************************************************)
(* query_rag.py                                                            *)
(***************************************************************************)
\* search(query, top_k): a connection of its own, so the committed state
Search(q, k) ==
    /\ results' = (IF db_tables
                   THEN [status |-> "rows",
                         rows   |-> select_knn(committed_documents, committed_vec,
                                               serialize_f32(embed_text(<<"query", q>>)), k),
                         query  |-> q,
                         top_k  |-> k]
                   ELSE [status |-> "OperationalError", rows |-> <<>>, query |-> q,
                         top_k  |-> k])
    /\ UNCHANGED <<chunk_vars, kb, db_vars, conn_vars, proc_vars, main_vars, errors>>

SearchAny == \E q \in 0..MaxVec, k \in 1..MaxK : Search(q, k)

BuildStep ==
    \/ CreateDatabase
    \/ CreateDatabaseFail
    \/ ProcessStart
    \/ ReadAndChunk
    \/ EmbedChunk
    \/ InsertDocument
    \/ InsertEmbedding
    \/ CommitFile
    \/ FileError
    \/ ProcessReturn
    \/ TestSearch
    \/ TestSearchFail
    \/ Close
    \/ Report

\* one run of the build script
Next == BuildStep

Spec == Init /\ [][Next]_vars

\* the build script ingests NumFiles files of MaxChunks chunks each
QueryInit ==
    /\ ChunkIdle
    /\ BuildFresh
    /\ kb = [f \in Files |-> MaxChunks]
    /\ main_pc = "create_database"

\* the query script is called at any time while the build script runs
QueryNext == BuildStep \/ SearchAny

SpecQuery == QueryInit /\ [][QueryNext]_vars

\* the build script run again and again on the same database path
RebuildNext == BuildStep \/ Rerun

SpecRebuild == Init /\ [][RebuildNext]_vars

TypeOK ==
    /\ main_pc \in {"idle", "create_database", "process_knowledge_base", "test_search",
                    "close", "report", "done", "crashed", "aborted"}
    /\ file_pc \in {"none", "read", "embed", "insert_doc", "insert_vec", "commit", "return"}
    /\ chunk_pc \in {"idle", "call", "returned", "error", "returned_extract", "error_extract"}
    /\ run \in 1..MaxRuns
    /\ file_idx \in 0..(NumFiles + 1)
    /\ total_chunks \in 0..(NumFiles * MaxChunks)
    /\ \A e \in errors : e[1] \in 1..MaxRuns /\ e[2] \in 0..NumFiles /\ e[4] \in 0..MaxChunks

(***************************************************************************)
(* Claims                                                                  *)
(***************************************************************************)
\* file f raised in the try block of the current run
Failed(f) == \E e \in errors : e[1] = run /\ e[2] = f

\* a chunk of file f failed (embedding or insert) after earlier chunks of the
\* file had been inserted
FailedMidFile(f) ==
    \E e \in errors :
        /\ e[1] = run /\ e[2] = f
        /\ e[3] \in {"embed", "insert_doc", "insert_vec"}
        /\ e[4] > 0

\* documents of file f written by the current run
RowsOf(docs, f) == {d \in docs : d.source = f /\ d.created_at = run}

\* documents that have an embedding row
Paired(docs, vecs) == {d \in docs : \E v \in vecs : v.document_id = d.id}

\* every chunk of file f has a committed document of this run with its embedding
FileCommitted(f) ==
    \A c \in 0..(kb[f] - 1) :
        \E d \in RowsOf(committed_documents, f) :
            /\ d.chunk_id = c
            /\ \E v \in committed_vec :
                   /\ v.document_id = d.id
                   /\ v.embedding = serialize_f32(embed_text(<<"chunk", f, c>>))

\* C1: per-file atomic batching: a file of which a chunk failed after some of
\* its chunks were inserted has no committed document row, and no query
\* (test_search on the build's connection included) returns a row of it.
C1_AtomicBatch ==
    \A f \in Files :
        FailedMidFile(f) =>
            /\ RowsOf(committed_documents, f) = {}
            /\ \A n \in 1..Len(results.rows) : results.rows[n].source # f

\* C2: one-to-one Document/Embedding: in every committed state each document
\* has exactly one embedding row and each embedding row exactly one document.
C2_OneToOne ==
    /\ \A d \in committed_documents :
           Cardinality({v \in committed_vec : v.document_id = d.id}) = 1
    /\ \A v \in committed_vec :
           Cardinality({d \in committed_documents : d.id = v.document_id}) = 1

\* every file the loop is past either failed or is committed whole
IsolationInv ==
    main_pc \in {"process_knowledge_base", "test_search", "close", "report", "crashed"} =>
        \A f \in Files :
            (f < file_idx /\ ~Failed(f)) => FileCommitted(f)

\* position of the loop of process_knowledge_base: files passed, then the
\* statements passed in the current file
LoopRank ==
    file_idx * (3 * MaxChunks + 2)
        + (CASE file_pc = "embed"      -> 3 * chunk_id + 1
             [] file_pc = "insert_doc" -> 3 * chunk_id + 2
             [] file_pc = "insert_vec" -> 3 * chunk_id + 3
             [] file_pc = "commit"     -> 3 * MaxChunks + 1
             [] OTHER                  -> 0)

InLoop == main_pc = "process_knowledge_base"

\* C3: failure isolation between files: a failure never removes what is
\* committed; every file the loop has passed that did not fail is committed
\* with all its chunks and embeddings; and process_knowledge_base always
\* gets to the end of the file list: it can always make a step, every step
\* moves it forward, and it is left only after the last file.
C3_FailureIsolation ==
    /\ []IsolationInv
    /\ [][/\ committed_documents \subseteq committed_documents'
          /\ committed_vec \subseteq committed_vec']_vars
    /\ [](InLoop => ENABLED BuildStep)
    /\ [][InLoop =>
            \/ main_pc' = main_pc /\ LoopRank' > LoopRank
            \/ /\ main_pc' = "test_search"
               /\ file_idx = NumFiles + 1 /\ file_idx' = file_idx]_vars

C3_Witness ==
    /\ main_pc = "test_search"
    /\ Failed(1) /\ ~Failed(2)
    /\ RowsOf(documents, 1) # {}
    /\ kb[2] > 0 /\ FileCommitted(2)

\* C4: the chunker rejects overlap >= size: a call that returns a list had
\* overlap < size.
C4_RejectsInvalid ==
    chunk_pc \in {"returned", "returned_extract"} => overlap < size

ChunkReturned == chunk_pc \in {"returned", "returned_extract"}

WordCount == Len(split(text))

\* C5 as claimed: a text of 0 < n < size words gives exactly one chunk, which
\* holds all n words in order.
C5_ShortInputOneChunk ==
    (ChunkReturned /\ size > overlap /\ 0 < WordCount /\ WordCount < size) =>
        /\ Len(chunks) = 1
        /\ split(chunks[1]) = split(text)

\* C5 as amended: a text of 0 < n < size words gives ceil(n / (size - overlap))
\* chunks, the first of which holds all n words in order; that is exactly one
\* chunk when n <= size - overlap.
C5_ShortInputFirstChunk ==
    (ChunkReturned /\ size > overlap /\ 0 < WordCount /\ WordCount < size) =>
        /\ Len(chunks) = (WordCount + (size - overlap) - 1) \div (size - overlap)
        /\ split(chunks[1]) = split(text)
        /\ (WordCount <= size - overlap => Len(chunks) = 1)

C5_Witness ==
    /\ ChunkReturned /\ size > overlap /\ overlap > 0
    /\ 1 < WordCount /\ WordCount < size
    /\ Len(chunks) = 1

\* the words of a chunk after its first n words
drop_words(ws, n) == SubSeq(ws, n + 1, Len(ws))

RECURSIVE de_overlap(_, _)
\* the first chunk whole, then every later chunk without its first ov words
de_overlap(cs, ov) ==
    IF cs = <<>> THEN <<>>
    ELSE IF Len(cs) = 1 THEN split(cs[1])
    ELSE de_overlap(SubSeq(cs, 1, Len(cs) - 1), ov) \o drop_words(split(cs[Len(cs)]), ov)

RECURSIVE kb_total(_)
kb_total(n) == IF n = 0 THEN 0 ELSE kb[n] + kb_total(n - 1)

\* C7: idempotent full rebuild: after any run in which nothing failed (so
\* after the first and after the second) the database holds one document and
\* one embedding per chunk of the knowledge base, and (source, chunk_id) is
\* unique.
C7_IdempotentRebuild ==
    (main_pc \in {"close", "report", "done", "crashed"} /\ errors = {}) =>
        /\ Cardinality(committed_documents) = kb_total(NumFiles)
        /\ Cardinality(committed_vec) = kb_total(NumFiles)
        /\ \A d1, d2 \in committed_documents :
               (d1.source = d2.source /\ d1.chunk_id = d2.chunk_id) => d1 = d2

\* distance of a stored document to query q, from the texts
Dist(d, q) == Abs(embed_text(d.text)[1] - embed_text(<<"query", q>>)[1])

\* rows are min(k, N) stored pairs, nearest first, none nearer left out
TopK(rows, docs, vecs, q, k) ==
    LET pairs == Paired(docs, vecs)
        shown(d) == \E n \in 1..Len(rows) :
                        rows[n].source = d.source /\ rows[n].chunk_id = d.chunk_id
    IN  /\ Len(rows) = Min(k, Cardinality(pairs))
        /\ \A n \in 1..Len(rows) :
               \E d \in pairs :
                   /\ rows[n].source = d.source /\ rows[n].chunk_id = d.chunk_id
                   /\ rows[n].text = d.text
                   /\ rows[n].distance = Dist(d, q)
        /\ \A n, m \in 1..Len(rows) :
               /\ n < m => rows[n].distance <= rows[m].distance
               /\ n # m => <<rows[n].source, rows[n].chunk_id>>
                               # <<rows[m].source, rows[m].chunk_id>>
        /\ \A d \in pairs :
               ~shown(d) => \A n \in 1..Len(rows) : rows[n].distance <= Dist(d, q)

\* C8: top-k size and order: search(query, k) on a store of N pairs, and
\* test_search with k = 5, return without error the min(k, N) nearest
\* documents in non-decreasing distance (none when N = 0).  A step that
\* changes results and nothing of the build script is a call of search.
C8_TopK ==
    [][/\ (/\ UNCHANGED <<db_vars, conn_vars, proc_vars, main_vars, errors>>
           /\ db_tables) =>
              /\ results'.status = "rows"
              /\ TopK(results'.rows, committed_documents, committed_vec,
                      results'.query, results'.top_k)
       /\ (main_pc = "test_search" /\ TestSearch) =>
              TopK(results'.rows, documents, vec_documents,
                   TestQueries[test_idx], TestSearchK)]_vars

C8_Witness ==
    /\ results.status = "rows"
    /\ results.top_k < Cardinality(Paired(committed_documents, committed_vec))
    /\ Len(results.rows) = results.top_k
    /\ Len(results.rows) >= 2
    /\ results.rows[1].distance < results.rows[2].distance

\* C9: run report: a run that got through the test searches ends with the
\* document count of the store reported, not with an error.
C9_RunReport ==
    main_pc \in {"done", "crashed"} =>
        /\ main_pc = "done"
        /\ reported = Cardinality(committed_documents)

\* C10: chunk counter agrees with the store: when process_knowledge_base has
\* finished, total_chunks is the number of documents with an embedding that
\* this run committed.
C10_CounterIsCommitted ==
    main_pc = "test_search" =>
        total_chunks =
            Cardinality({d \in Paired(committed_documents, committed_vec) :
                             d.created_at = run})

====
